---- MODULE Spec2Model ----
(***************************************************************************)
(* Model of src/lambda.py: the receipt-processing Lambda handler.          *)
(*                                                                         *)
(* lambda_handler runs four steps in sequence against four collaborators   *)
(* (S3 head_object, Textract analyze_expense, DynamoDB put_item, SES       *)
(* send_email).  Every call made to a collaborator, to uuid.uuid4() and to *)
(* datetime.now() is appended to `calls`, the log a test double would      *)
(* keep, together with the argument handed over and the outcome.           *)
(*                                                                         *)
(* Python dicts are functions whose DOMAIN is the set of keys present, so  *)
(* a missing key is really missing.  Python strings that the code builds   *)
(* by concatenation are sequences of string tokens.                        *)
(***************************************************************************)
EXTENDS Integers, Sequences, FiniteSets, TLC

VARIABLES
    pc,            \* position of lambda_handler: idle, head, textract, store, notify, done
    event,         \* the triggering event of the current invocation
    clock,         \* the wall clock read by datetime.now()
    issued,        \* identifiers uuid.uuid4() has returned so far
    calls,         \* collaborator calls of the current invocation, in order
    response,      \* <<r>> once analyze_expense has returned r, else << >>
    receipt_data,  \* <<d>> once process_receipt_with_textract has returned d
    result,        \* <<r>> once lambda_handler has returned r
    runs,          \* number of invocations started
    history        \* per invocation that built a record: its input and the record

vars == <<pc, event, clock, issued, calls, response, receipt_data, result, runs, history>>

----------------------------------------------------------------------------
(* Bounds of the model *)

MaxRuns == 2
MaxClock == 2
MaxFields == 2
MaxItemFields == 2
MaxLineItems == 2
MaxRenderItems == 2

(* Clock resolution: the clock counts half days, strftime('%Y-%m-%d') keeps *)
(* the day and isoformat() keeps the day and the time of day.               *)
TicksPerDay == 2

Calendar == <<"2024-01-01", "2024-01-02", "2024-01-03", "2024-01-04", "2024-01-05">>

Ids == 1..MaxRuns

----------------------------------------------------------------------------
(* Python dict and list helpers *)

EmptyDict == << >>

Get(d, k, default) == IF k \in DOMAIN d THEN d[k] ELSE default

Put(d, k, v) == (k :> v) @@ d

RECURSIVE SeqsUpTo(_, _)
SeqsUpTo(S, n) ==
    IF n = 0 THEN {<< >>}
    ELSE LET shorter == SeqsUpTo(S, n - 1)
         IN  shorter \cup {Append(s, x) : s \in {t \in shorter : Len(t) = n - 1}, x \in S}

----------------------------------------------------------------------------
(* datetime and urllib *)

strftime(now) == Calendar[(now \div TicksPerDay) + 1]

isoformat(now) == [date |-> Calendar[(now \div TicksPerDay) + 1], time |-> now % TicksPerDay]

unquote_plus_token(t) ==
    IF t = "+" THEN " "
    ELSE IF t = "%2B" THEN "+"
    ELSE IF t = "%20" THEN " "
    ELSE t

unquote_plus(k) == [i \in 1..Len(k) |-> unquote_plus_token(k[i])]

----------------------------------------------------------------------------
(* process_receipt_with_textract: the record built from an analysis result *)

s3_path(bucket, key) == <<"s3://", bucket, "/">> \o key

(* field.get('Type', {}).get('Text', '') *)
FieldType(field) == Get(Get(field, "Type", EmptyDict), "Text", "")

(* field.get('ValueDetection', {}).get('Text', '') *)
FieldValue(field) == Get(Get(field, "ValueDetection", EmptyDict), "Text", "")

InitialReceipt_keyed(id, now, bucket, key) ==
    [receipt_id |-> Len(key),
     date       |-> strftime(now),
     vendor     |-> "Unknown",
     total      |-> "0.00",
     items      |-> << >>,
     s3_path    |-> s3_path(bucket, key)]

InitialReceipt_blank(id, now, bucket, key) ==
    [receipt_id |-> id,
     date       |-> strftime(now),
     vendor     |-> "",
     total      |-> "0.00",
     items      |-> << >>,
     s3_path    |-> s3_path(bucket, key)]

InitialReceipt(id, now, bucket, key) ==
    [receipt_id |-> id,
     date       |-> strftime(now),
     vendor     |-> "Unknown",
     total      |-> "0.00",
     items      |-> << >>,
     s3_path    |-> s3_path(bucket, key)]

(* One pass of the loop body over the summary fields *)
SummaryField(rd, field) ==
    LET field_type == FieldType(field)
        value      == FieldValue(field)
    IN  IF field_type = "TOTAL" THEN [rd EXCEPT !.total = value]
        ELSE IF field_type = "INVOICE_RECEIPT_DATE" THEN [rd EXCEPT !.date = value]
        ELSE IF field_type = "VENDOR_NAME" THEN [rd EXCEPT !.vendor = value]
        ELSE rd

RECURSIVE SummaryFields_reversed(_, _)
SummaryFields_reversed(rd, fields) ==
    IF fields = << >> THEN rd
    ELSE SummaryField(SummaryFields_reversed(rd, Tail(fields)), Head(fields))

RECURSIVE SummaryFields(_, _)
SummaryFields(rd, fields) ==
    IF fields = << >> THEN rd
    ELSE SummaryFields(SummaryField(rd, Head(fields)), Tail(fields))

(* One pass of the loop body over the fields of a line item *)
LineItemExpenseField(item, field) ==
    LET field_type == FieldType(field)
        value      == FieldValue(field)
    IN  IF field_type = "ITEM" THEN Put(item, "name", value)
        ELSE IF field_type = "PRICE" THEN Put(item, "price", value)
        ELSE IF field_type = "QUANTITY" THEN Put(item, "quantity", value)
        ELSE item

RECURSIVE LineItemExpenseFields(_, _)
LineItemExpenseFields(item, fields) ==
    IF fields = << >> THEN item
    ELSE LineItemExpenseFields(LineItemExpenseField(item, Head(fields)), Tail(fields))

LineItem_unnamed(items, line_item) ==
    Append(items, LineItemExpenseFields(EmptyDict, Get(line_item, "LineItemExpenseFields", << >>)))

(* One line item: the item is appended only if it got a name *)
LineItem(items, line_item) ==
    LET item == LineItemExpenseFields(EmptyDict, Get(line_item, "LineItemExpenseFields", << >>))
    IN  IF "name" \in DOMAIN item THEN Append(items, item) ELSE items

RECURSIVE LineItems(_, _)
LineItems(items, line_items) ==
    IF line_items = << >> THEN items
    ELSE LineItems(LineItem(items, Head(line_items)), Tail(line_items))

RECURSIVE LineItemGroups(_, _)
LineItemGroups(items, groups) ==
    IF groups = << >> THEN items
    ELSE LET group == Head(groups)
             after == IF "LineItems" \in DOMAIN group
                      THEN LineItems(items, group["LineItems"])
                      ELSE items
         IN  LineItemGroups(after, Tail(groups))

(* The part of process_receipt_with_textract after the service call *)
ExtractReceipt(rd, resp) ==
    IF "ExpenseDocuments" \in DOMAIN resp /\ resp["ExpenseDocuments"] # << >>
    THEN LET expense_doc == resp["ExpenseDocuments"][1]
             summarised  == IF "SummaryFields" \in DOMAIN expense_doc
                            THEN SummaryFields(rd, expense_doc["SummaryFields"])
                            ELSE rd
         IN  IF "LineItemGroups" \in DOMAIN expense_doc
             THEN [summarised EXCEPT
                      !.items = LineItemGroups(summarised.items, expense_doc["LineItemGroups"])]
             ELSE summarised
    ELSE rd

process_receipt_with_textract(resp, id, now, bucket, key) ==
    ExtractReceipt(InitialReceipt(id, now, bucket, key), resp)

----------------------------------------------------------------------------
(* store_receipt_in_dynamodb: the item handed to put_item *)

items_for_db_verbatim(items) == items

items_for_db(items) ==
    [i \in 1..Len(items) |->
        [name     |-> Get(items[i], "name", "Unknown Item"),
         price    |-> Get(items[i], "price", "0.00"),
         quantity |-> Get(items[i], "quantity", "1")]]

db_item_redated(rd, now) ==
    [receipt_id          |-> rd.receipt_id,
     date                |-> strftime(now),
     vendor              |-> rd.vendor,
     total               |-> rd.total,
     items               |-> items_for_db(rd.items),
     s3_path             |-> rd.s3_path,
     processed_timestamp |-> isoformat(now)]

db_item(rd, now) ==
    [receipt_id          |-> rd.receipt_id,
     date                |-> rd.date,
     vendor              |-> rd.vendor,
     total               |-> rd.total,
     items               |-> items_for_db(rd.items),
     s3_path             |-> rd.s3_path,
     processed_timestamp |-> isoformat(now)]

----------------------------------------------------------------------------
(* send_email_notification: the message handed to send_email *)

SES_SENDER_EMAIL == "your-email@example.com"
SES_RECIPIENT_EMAIL == "recipient@example.com"

item_html_db_defaults(item) ==
    <<"<li>", Get(item, "name", "Unknown Item"), " - $", Get(item, "price", "0.00"),
      " x ", Get(item, "quantity", "1"), "</li>">>

(* f"<li>{name} - ${price} x {quantity}</li>" *)
item_html(item) ==
    <<"<li>", Get(item, "name", "Unknown Item"), " - $", Get(item, "price", "N/A"),
      " x ", Get(item, "quantity", "1"), "</li>">>

RECURSIVE items_html_loop(_, _)
items_html_loop(html, items) ==
    IF items = << >> THEN html
    ELSE items_html_loop(html \o item_html(Head(items)), Tail(items))

(* `not items_html`: the concatenation of the tokens is the empty string *)
IsEmptyString(tokens) == \A i \in 1..Len(tokens) : tokens[i] = ""

items_html(items) ==
    LET html == items_html_loop(<< >>, items)
    IN  IF IsEmptyString(html) THEN <<"<li>", "No items detected", "</li>">> ELSE html

html_body(rd) ==
    [receipt_id |-> rd.receipt_id,
     vendor     |-> rd.vendor,
     date       |-> rd.date,
     total      |-> rd.total,
     s3_path    |-> rd.s3_path,
     items_html |-> items_html(rd.items)]

email_message(rd) ==
    [Source      |-> SES_SENDER_EMAIL,
     ToAddresses |-> <<SES_RECIPIENT_EMAIL>>,
     Subject     |-> <<"Receipt Processed: ", rd.vendor, " - $", rd.total>>,
     Html        |-> html_body(rd)]


----------------------------------------------------------------------------
(* Inputs: triggering events and analysis results *)

S3Event(bucket, key) ==
    [Records |-> <<[s3 |-> [bucket |-> [name |-> bucket], object |-> [key |-> key]]]>>]

(* An event without any record: event['Records'][0] raises *)
MalformedEvent == [Records |-> << >>]

ValidEvents ==
    {S3Event("receipts", <<"scan", "+", "1.png">>),
     S3Event("receipts", <<"scan", "%2B", "2.png">>)}

Events == ValidEvents \cup {MalformedEvent}

IsWellFormed(e) == e.Records # << >>

Bucket(e) == e.Records[1].s3.bucket.name

Key(e) == unquote_plus(e.Records[1].s3.object.key)

(* Generator marks: a key that is missing, a dict without its Text key *)
NoKey == "<no key>"
NoText == "<no Text>"

Opt(k, x) ==
    IF x = NoKey THEN EmptyDict
    ELSE IF x = NoText THEN k :> EmptyDict
    ELSE k :> [Text |-> x]

MkField(ty, val) == Opt("Type", ty) @@ Opt("ValueDetection", val)

OptKey(k, x) == IF x = NoKey THEN EmptyDict ELSE k :> x

SummaryFieldSet ==
    {MkField(ty, val) :
        ty \in {NoKey, "TOTAL", "INVOICE_RECEIPT_DATE", "VENDOR_NAME", "TAX"},
        val \in {NoKey, NoText, "", "12.50", "Cafe X"}}

ItemFieldSet ==
    {MkField(ty, val) :
        ty \in {"ITEM", "PRICE", "QUANTITY", "PRODUCT_CODE"},
        val \in {NoKey, "Coffee", "3.00"}}

MkLineItem(fields) == [LineItemExpenseFields |-> fields]

(* Line items with every short field sequence, and one without a field list *)
RichLineItems ==
    {EmptyDict} \cup {MkLineItem(fs) : fs \in SeqsUpTo(ItemFieldSet, MaxItemFields)}

(* A few line items to build longer item lists from *)
LineItemPool ==
    {MkLineItem(<<MkField("ITEM", "Coffee")>>),
     MkLineItem(<<MkField("ITEM", "Tea"), MkField("PRICE", "3.00"), MkField("QUANTITY", "2")>>),
     MkLineItem(<<MkField("PRICE", "9.99"), MkField("QUANTITY", "7")>>),
     EmptyDict}

OneGroup(line_items) == <<[LineItems |-> line_items]>>

OwnGroups(line_items) == [i \in 1..Len(line_items) |-> [LineItems |-> <<line_items[i]>>]]

AfterBareGroup(line_items) == <<EmptyDict>> \o OneGroup(line_items)

Document(doc) == [ExpenseDocuments |-> <<doc>>]

StructuralResponses ==
    {EmptyDict, [ExpenseDocuments |-> << >>], Document(EmptyDict)}

SummaryResponses ==
    {Document([SummaryFields |-> fs]) : fs \in SeqsUpTo(SummaryFieldSet, MaxFields)}

LineItemResponses ==
    {Document([LineItemGroups |-> OneGroup(<<li>>)]) : li \in RichLineItems}
    \cup
    UNION {{Document([LineItemGroups |-> OneGroup(s)]),
            Document([LineItemGroups |-> OwnGroups(s)]),
            Document([LineItemGroups |-> AfterBareGroup(s)])} :
           s \in SeqsUpTo(LineItemPool, MaxLineItems)}

MixedResponses ==
    {Document([SummaryFields |-> <<f>>, LineItemGroups |-> OneGroup(<<li>>)]) :
        f \in SummaryFieldSet, li \in LineItemPool}

ExtractResponses ==
    StructuralResponses \cup SummaryResponses \cup LineItemResponses \cup MixedResponses

(* Analysis results the handler is run against *)
SampleResponses ==
    {EmptyDict,
     Document([SummaryFields |-> <<MkField("TOTAL", "12.50"), MkField("VENDOR_NAME", "Cafe X")>>]),
     Document([LineItemGroups |->
                  OneGroup(<<MkLineItem(<<MkField("ITEM", "Coffee"), MkField("PRICE", "3.00")>>)>>)]),
     Document([SummaryFields |-> <<MkField("INVOICE_RECEIPT_DATE", "03/01/2024")>>,
               LineItemGroups |->
                  OneGroup(<<MkLineItem(<<MkField("ITEM", "Tea"), MkField("QUANTITY", "2")>>),
                             MkLineItem(<<MkField("PRICE", "9.99")>>)>>)])}

(* Records send_email_notification is applied to on its own *)
RenderItems ==
    {OptKey("name", n) @@ OptKey("price", p) @@ OptKey("quantity", q) :
        n \in {NoKey, "", "Coffee", "No items detected"},
        p \in {NoKey, "3.00"},
        q \in {NoKey, "2"}}

RenderRecords ==
    {[receipt_id |-> 1, date |-> "2024-01-01", vendor |-> "Cafe X", total |-> "12.50",
      items |-> its, s3_path |-> s3_path("receipts", <<"scan.png">>)] :
        its \in SeqsUpTo(RenderItems, MaxRenderItems)}

----------------------------------------------------------------------------
(* lambda_handler *)

Success == [statusCode |-> 200, body |-> "Receipt processed successfully!"]

Failure == [statusCode |-> 500, body |-> "Error"]

(* store_receipt_in_dynamodb re-raises what put_item raised *)
store_receipt_in_dynamodb_swallows(ok) == FALSE

store_receipt_in_dynamodb_raises(ok) == ~ok

(* send_email_notification logs what send_email raised and returns *)
send_email_notification_propagates(ok) == ~ok

send_email_notification_raises(ok) == FALSE

(* Before the first invocation: no event yet, nothing called, clock at 0 *)
Init ==
    /\ pc = "idle"
    /\ event = MalformedEvent
    /\ clock = 0
    /\ issued = {}
    /\ calls = << >>
    /\ response = << >>
    /\ receipt_data = << >>
    /\ result = << >>
    /\ runs = 0
    /\ history = << >>

(* The runtime calls lambda_handler(event, context); reading the bucket and *)
(* the key raises on an event without records.                               *)
Invoke(e) ==
    /\ pc \in {"idle", "done"}
    /\ runs < MaxRuns
    /\ runs' = runs + 1
    /\ event' = e
    /\ calls' = << >>
    /\ response' = << >>
    /\ receipt_data' = << >>
    /\ IF IsWellFormed(e)
       THEN pc' = "head" /\ result' = << >>
       ELSE pc' = "done" /\ result' = <<Failure>>
    /\ UNCHANGED <<clock, issued, history>>

HeadObject(ok) ==
    /\ pc = "head"
    /\ calls' = Append(calls, [op |-> "head_object",
                               arg |-> [Bucket |-> Bucket(event), Key |-> Key(event)],
                               ok |-> ok])
    /\ IF ok
       THEN pc' = "textract" /\ result' = result
       ELSE pc' = "done" /\ result' = <<Failure>>
    /\ UNCHANGED <<event, clock, issued, response, receipt_data, runs, history>>

AnalyzeCall(ok) ==
    [op |-> "analyze_expense",
     arg |-> [Bucket |-> Bucket(event), Name |-> Key(event)],
     ok |-> ok]

(* process_receipt_with_textract, the service answering with one of Rs *)
Analyze(Rs) ==
    /\ pc = "textract"
    /\ \/ /\ calls' = Append(calls, AnalyzeCall(FALSE))
          /\ pc' = "done"
          /\ result' = <<Failure>>
          /\ UNCHANGED <<issued, response, receipt_data, history>>
       \/ \E r \in Rs, id \in Ids \ issued :
             LET rd == process_receipt_with_textract(r, id, clock, Bucket(event), Key(event))
             IN  /\ calls' = calls \o <<AnalyzeCall(TRUE),
                                        [op |-> "uuid4", ret |-> id],
                                        [op |-> "now", ret |-> clock]>>
                 /\ issued' = issued \cup {id}
                 /\ response' = <<r>>
                 /\ receipt_data' = <<rd>>
                 /\ history' = Append(history, [event |-> event, response |-> r, record |-> rd])
                 /\ pc' = "store"
                 /\ result' = result
    /\ UNCHANGED <<event, clock, runs>>

Store(ok) ==
    /\ pc = "store"
    /\ calls' = calls \o <<[op |-> "now", ret |-> clock],
                           [op |-> "put_item", arg |-> db_item(receipt_data[1], clock), ok |-> ok]>>
    /\ IF store_receipt_in_dynamodb_raises(ok)
       THEN pc' = "done" /\ result' = <<Failure>>
       ELSE pc' = "notify" /\ result' = result
    /\ UNCHANGED <<event, clock, issued, response, receipt_data, runs, history>>

Notify(ok) ==
    /\ pc = "notify"
    /\ calls' = Append(calls, [op |-> "send_email", arg |-> email_message(receipt_data[1]), ok |-> ok])
    /\ pc' = "done"
    /\ IF send_email_notification_raises(ok)
       THEN result' = <<Failure>>
       ELSE result' = <<Success>>
    /\ UNCHANGED <<event, clock, issued, response, receipt_data, runs, history>>

(* Time passes between any two steps *)
Tick ==
    /\ clock < MaxClock
    /\ clock' = clock + 1
    /\ UNCHANGED <<pc, event, issued, calls, response, receipt_data, result, runs, history>>

Next ==
    \/ \E e \in Events : Invoke(e)
    \/ \E ok \in BOOLEAN : HeadObject(ok)
    \/ Analyze(SampleResponses)
    \/ \E ok \in BOOLEAN : Store(ok)
    \/ \E ok \in BOOLEAN : Notify(ok)
    \/ Tick

Spec == Init /\ [][Next]_vars

(* process_receipt_with_textract on its own, over every bounded analysis result *)
InitExtract ==
    /\ pc = "textract"
    /\ event \in ValidEvents
    /\ clock \in 0..MaxClock
    /\ issued = 1..(MaxRuns - 1)
    /\ calls = << >>
    /\ response = << >>
    /\ receipt_data = << >>
    /\ result = << >>
    /\ runs = 1
    /\ history = << >>

NextExtract == Analyze(ExtractResponses)

SpecExtract == InitExtract /\ [][NextExtract]_vars

(* send_email_notification on its own, over every bounded record *)
InitRender ==
    /\ pc = "notify"
    /\ event \in ValidEvents
    /\ clock = 0
    /\ issued = {1}
    /\ calls = << >>
    /\ response = << >>
    /\ receipt_data \in {<<rd>> : rd \in RenderRecords}
    /\ result = << >>
    /\ runs = 1
    /\ history = << >>

NextRender == \E ok \in BOOLEAN : Notify(ok)

SpecRender == InitRender /\ [][NextRender]_vars


----------------------------------------------------------------------------
(* Reading the state: the call log and the analysis result *)

StepOps == <<"head_object", "analyze_expense", "put_item", "send_email">>

IsStep(c) == \E i \in 1..Len(StepOps) : c.op = StepOps[i]

StepCalls == SelectSeq(calls, IsStep)

CallsOf(op) == LET Is(c) == c.op = op IN SelectSeq(calls, Is)

Max(S) == CHOOSE x \in S : \A y \in S : y <= x

HasDocument(r) == "ExpenseDocuments" \in DOMAIN r /\ r["ExpenseDocuments"] # << >>

SummaryOf(r) ==
    IF HasDocument(r) THEN Get(r["ExpenseDocuments"][1], "SummaryFields", << >>) ELSE << >>

GroupsOf(r) ==
    IF HasDocument(r) THEN Get(r["ExpenseDocuments"][1], "LineItemGroups", << >>) ELSE << >>

RECURSIVE Flatten(_)
Flatten(groups) ==
    IF groups = << >> THEN << >>
    ELSE Get(Head(groups), "LineItems", << >>) \o Flatten(Tail(groups))

FieldsOf(line_item) == Get(line_item, "LineItemExpenseFields", << >>)

Labelled(fields, label) == {i \in 1..Len(fields) : FieldType(fields[i]) = label}

(* The detected text of the last field carrying the label, else the default *)
LastOf(fields, label, default) ==
    IF Labelled(fields, label) = {} THEN default
    ELSE FieldValue(fields[Max(Labelled(fields, label))])

HasItemLabel(line_item) == Labelled(FieldsOf(line_item), "ITEM") # {}

NothingDetected(r) ==
    \/ ~HasDocument(r)
    \/ /\ "SummaryFields" \notin DOMAIN r["ExpenseDocuments"][1]
       /\ "LineItemGroups" \notin DOMAIN r["ExpenseDocuments"][1]

HasDate(r) == Labelled(SummaryOf(r), "INVOICE_RECEIPT_DATE") # {}

DayOf(now) == now \div TicksPerDay

----------------------------------------------------------------------------
(* Claims *)

(* C1: head_object, analyze_expense, put_item and send_email are attempted  *)
(* in that order, each only after every earlier one succeeded; when one of  *)
(* the first three raises, nothing later is attempted and the handler has   *)
(* returned the failure result (statusCode 500).                            *)
C1_StepsInOrderAbortOnFailure ==
    LET s == StepCalls
    IN  /\ Len(s) <= Len(StepOps)
        /\ \A i \in 1..Len(s) : s[i].op = StepOps[i]
        /\ \A i \in 1..Len(s) :
              (~s[i].ok /\ s[i].op # "send_email") =>
                  /\ i = Len(s)
                  /\ pc = "done"
                  /\ result = <<Failure>>
                  /\ result[1].statusCode = 500

C1_Witness_StoreFailed ==
    /\ pc = "done"
    /\ Len(StepCalls) = 3
    /\ StepCalls[3].op = "put_item"
    /\ ~StepCalls[3].ok
    /\ result = <<Failure>>

(* C2: once send_email has been attempted, whether it raised or not, the    *)
(* handler returns the success result (statusCode 200).                     *)
C2_NotificationFailureSwallowed ==
    \A i \in 1..Len(calls) :
        calls[i].op = "send_email" =>
            /\ pc = "done"
            /\ result = <<Success>>
            /\ result[1].statusCode = 200

C2_Witness_SendRaised ==
    /\ Len(StepCalls) = 4
    /\ StepCalls[3].ok
    /\ ~StepCalls[4].ok
    /\ result = <<Success>>

(* C3: in the record returned by process_receipt_with_textract date, vendor *)
(* and total are present and none of them is the empty string.              *)
C3_SummaryValuesNeverEmpty ==
    \A k \in 1..Len(receipt_data) :
        /\ {"date", "vendor", "total"} \subseteq DOMAIN receipt_data[k]
        /\ receipt_data[k].date # ""
        /\ receipt_data[k].vendor # ""
        /\ receipt_data[k].total # ""

C6_DefaultsWhenNothingDetected ==
    (Len(response) = 1 /\ NothingDetected(response[1])) =>
        /\ Len(receipt_data) = 1
        /\ receipt_data[1].vendor = "Unknown"
        /\ receipt_data[1].total = "0.00"
        /\ receipt_data[1].date = Calendar[DayOf(clock) + 1]
        /\ receipt_data[1].items = << >>

C6_Witness_BareDocument ==
    /\ response = <<Document(EmptyDict)>>
    /\ Len(receipt_data) = 1
    /\ receipt_data[1].items = << >>

C8_FreshIdPerRun ==
    /\ Len(CallsOf("uuid4")) = Len(receipt_data)
    /\ \A k \in 1..Len(receipt_data) : receipt_data[k].receipt_id = CallsOf("uuid4")[1].ret
    /\ \A i \in 1..Len(history) : \A j \in 1..Len(history) :
          (i < j /\ history[i].event = history[j].event
                 /\ history[i].response = history[j].response) =>
              LET a == history[i].record
                  b == history[j].record
              IN  /\ a.receipt_id # b.receipt_id
                  /\ a.vendor = b.vendor
                  /\ a.total = b.total
                  /\ a.items = b.items
                  /\ a.s3_path = b.s3_path
                  /\ HasDate(history[i].response) => a.date = b.date

C8_Witness_SameInputTwice ==
    /\ Len(history) = 2
    /\ history[1].event = history[2].event
    /\ history[1].response = history[2].response
    /\ history[1].record.receipt_id # history[2].record.receipt_id
    /\ history[1].record.date # history[2].record.date

HasPlaceholder(html) ==
    \E i \in 1..(Len(html) - 2) :
        html[i] = "<li>" /\ html[i + 1] = "No items detected" /\ html[i + 2] = "</li>"

(* C9: the body holds the placeholder line exactly when the record has no   *)
(* items, and then nothing else; otherwise it holds one line per item in    *)
(* order, with "Unknown Item", "N/A" and "1" for a missing name, price and  *)
(* quantity.                                                                *)
C9_PlaceholderIffNoItems ==
    \A i \in 1..Len(calls) :
        calls[i].op = "send_email" =>
            LET html  == calls[i].arg.Html.items_html
                items == receipt_data[1].items
            IN  /\ HasPlaceholder(html) <=> items = << >>
                /\ items = << >> => Len(html) = 3
                /\ items # << >> =>
                      /\ Len(html) = 7 * Len(items)
                      /\ \A k \in 1..Len(items) :
                            SubSeq(html, 7 * (k - 1) + 1, 7 * k) =
                                <<"<li>", Get(items[k], "name", "Unknown Item"),
                                  " - $", Get(items[k], "price", "N/A"),
                                  " x ", Get(items[k], "quantity", "1"), "</li>">>

C9_Witness_MissingFieldsRendered ==
    \E i \in 1..Len(calls) :
        /\ calls[i].op = "send_email"
        /\ Len(receipt_data[1].items) = 2
        /\ DOMAIN receipt_data[1].items[1] = {}
        /\ Get(receipt_data[1].items[2], "name", "") = "No items detected"
        /\ calls[i].arg.Html.items_html[2] = "Unknown Item"

(* C10 as stated: without a detected date, the date handed to put_item is   *)
(* the calendar date of the processed timestamp.                            *)
C10_DateIsTimestampDate ==
    \A i \in 1..Len(calls) :
        (calls[i].op = "put_item" /\ ~HasDate(response[1])) =>
            calls[i].arg.date = calls[i].arg.processed_timestamp.date

(* C10 amended: without a detected date, the date handed to put_item is the *)
(* calendar date of the clock read in process_receipt_with_textract, the    *)
(* processed timestamp is the later read in store_receipt_in_dynamodb, and  *)
(* the two dates agree exactly when both reads fall on one calendar day.    *)
C10_DateIsBuildTimeDate ==
    \A i \in 1..Len(calls) :
        (calls[i].op = "put_item" /\ ~HasDate(response[1])) =>
            LET reads == CallsOf("now")
            IN  /\ Len(reads) = 2
                /\ calls[i].arg.date = Calendar[DayOf(reads[1].ret) + 1]
                /\ calls[i].arg.processed_timestamp.date = Calendar[DayOf(reads[2].ret) + 1]
                /\ calls[i].arg.processed_timestamp.time = reads[2].ret % TicksPerDay
                /\ (calls[i].arg.date = calls[i].arg.processed_timestamp.date)
                      <=> (DayOf(reads[1].ret) = DayOf(reads[2].ret))

C10_Witness_MidnightBetweenReads ==
    \E i \in 1..Len(calls) :
        /\ calls[i].op = "put_item"
        /\ ~HasDate(response[1])
        /\ DayOf(CallsOf("now")[1].ret) # DayOf(CallsOf("now")[2].ret)

====
